---- MODULE Spec2Model ----
(***************************************************************************)
(* The FTP operation core of tiendanubecli: the connection manager          *)
(* (lib/ftp/connection-manager.ts), the error classifier                    *)
(* (lib/ftp/errors.ts) and the retry wrapper of the transfer service        *)
(* (lib/ftp/service.ts), as a state machine over one Node.js event loop.    *)
(* Every action is one run-to-completion segment of the code: from a call   *)
(* or a resumed await to the next await.  What the basic-ftp client and the *)
(* remote server do between two segments (the handshake advancing, a        *)
(* command failing, a socket dying) is chosen by the environment.           *)
(***************************************************************************)
EXTENDS Integers, Sequences, FiniteSets, TLC

\* ---------------------------------------------------------------- bounds
\* Client objects constructed in one behaviour: where both call paths use
\* getConnection directly, and where one of them runs in executeOperation
MaxHandles == 3
MaxRetryHandles == 2
MaxRetriesCap == 2
\* marker occurrences in one raw message
MaxMarkers == 3
\* calls that fail during one bulk operation
MaxFaults == 2
\* the largest maxRetries for which the backoff sleeps are followed
MaxBackoffRetries == 6
\* commands after the first that operations issue in one behaviour
MaxCommands == 1

\* ------------------------------------------------------ program constants
\* client: Client | null = null
Null == 0

Handles == 1 .. MaxHandles

\* The independent call paths that share the singleton manager: a
\* file-watcher event handler and a bulk transfer.
Callers == {"watcher", "bulk"}

\* ------------------------------------------------------- error classifier
\* A message is modelled by the set of markers its lower-cased text contains.
ConnectionMarkers == {"econnrefused", "enotfound", "etimedout", "econnreset"}
AuthMarkers == {"login", "authentication", "530"}
NotFoundMarkers == {"no such file", "550", "not found"}
PermissionMarkers == {"permission", "553", "access denied"}
TimeoutMarkers == {"timeout", "timed out"}

\* The spellings in which a raw message can carry a marker other than the
\* lower-case one the classifier looks for (Node.js reports ECONNRESET).
UpperCased ==
    {"ECONNRESET", "ETIMEDOUT", "Login", "Not Found", "Permission", "Timeout"}

\* String.prototype.toLowerCase on one marker occurrence
LowerCase(t) ==
    CASE t = "ECONNRESET" -> "econnreset"
      [] t = "ETIMEDOUT" -> "etimedout"
      [] t = "Login" -> "login"
      [] t = "Not Found" -> "not found"
      [] t = "Permission" -> "permission"
      [] t = "Timeout" -> "timeout"
      [] OTHER -> t

\* a message that is compared as it stands
toLowerCaseSkipped(text) == text

\* error.message?.toLowerCase() || ""
toLowerCase(text) == {LowerCase(t) : t \in text}

\* message.includes(a) || message.includes(b) || ...
Includes(message, markers) == message \cap markers # {}

\* new Error(message): a failure object that is no FtpError
PlainError(marks) ==
    [isError |-> TRUE, code |-> "NONE", isRetryable |-> FALSE, marks |-> marks]

\* a thrown value that is not an Error instance
NonError(marks) ==
    [isError |-> FALSE, code |-> "NONE", isRetryable |-> FALSE, marks |-> marks]

FtpError(marks, code) ==
    [isError |-> TRUE, code |-> code, isRetryable |-> FALSE, marks |-> marks]

FtpConnectionError(marks) ==
    [FtpError(marks, "CONNECTION_ERROR") EXCEPT !.isRetryable = TRUE]

\* an authentication class that copies isRetryable = true from its neighbour
FtpAuthenticationErrorRetried(marks) ==
    [FtpError(marks, "AUTH_ERROR") EXCEPT !.isRetryable = TRUE]

FtpAuthenticationError(marks) == FtpError(marks, "AUTH_ERROR")

FtpFileNotFoundError(marks) == FtpError(marks, "FILE_NOT_FOUND")

FtpPermissionError(marks) == FtpError(marks, "PERMISSION_ERROR")

\* a timeout class that inherits isRetryable = false from the base class
FtpTimeoutErrorFatal(marks) == FtpError(marks, "TIMEOUT_ERROR")

FtpTimeoutError(marks) ==
    [FtpError(marks, "TIMEOUT_ERROR") EXCEPT !.isRetryable = TRUE]

\* classifyFtpError(error, context): pathMarks are the markers that the text
\* of context.filePath (or "unknown") contains.  The message of the result is
\* a fixed prefix followed by the original message or by the path.
classifyFtpError(error, pathMarks) ==
    IF ~error.isError
    THEN FtpError(error.marks, "UNKNOWN_ERROR")
    ELSE LET message == toLowerCase(error.marks) IN
         IF Includes(message, ConnectionMarkers)
         THEN FtpConnectionError(error.marks)
         ELSE IF Includes(message, AuthMarkers)
         THEN FtpAuthenticationError(error.marks \cup {"authentication"})
         ELSE IF Includes(message, NotFoundMarkers)
         THEN FtpFileNotFoundError(pathMarks \cup {"not found"})
         ELSE IF Includes(message, PermissionMarkers)
         THEN FtpPermissionError(pathMarks \cup {"Permission"})
         ELSE IF Includes(message, TimeoutMarkers)
         THEN FtpTimeoutError(error.marks \cup {"Timeout"})
         ELSE FtpError(error.marks, "UNKNOWN_ERROR")

\* Failures the basic-ftp client raises from access() or from a command.
RawErrors ==
    { PlainError({"ECONNRESET"}),
      PlainError({"530", "Login"}),
      PlainError({"550", "no such file"}),
      PlainError({"553", "permission"}),
      PlainError({"Timeout"}),
      PlainError({}) }

\* operation(client) with client === null: a TypeError, no marker in its text
NullDereference == PlainError({})

\* waitForConnection: new Error("Timeout waiting for FTP connection")
WaitTimeoutError == PlainError({"Timeout"})

\* getConnection: new Error("Connection failed during wait")
WaitFailedError == PlainError({})

\* ------------------------------------------------------------------ state
VARIABLES
    client,        \* the manager's slot: a handle or Null
    isConnecting,  \* the connecting-in-progress flag
    lastActivity,  \* TRUE once getConnection has stamped it (null before)
    idleTimer,     \* "null", "armed" (pending timeout) or "spent" (fired)
    hstate,        \* per handle: "unused", "dialing", "login", "open", "closed"
    sock,          \* per handle: "bare", or with the manager's listeners
                   \* "on", after its error event "erred", after close "gone"
    created,       \* number of Client objects constructed so far
    maxRetries,    \* config.connection.maxRetries
    wrapped,       \* the callers that reach getConnection from executeOperation;
                   \* the others call it directly, as testConnection does
    pc,            \* per caller: where its executeOperation call stands
    attempt,       \* per caller: the loop variable of executeOperation
    cur,           \* per caller: the handle its pending await is about
    got,           \* per caller: what its latest getConnection call did
    undisturbed,   \* per caller: live handle its last call returned, while
                   \* no close, invalidation, expiry or socket event intervened
    failed,        \* per caller: what its last failed attempt left behind
    run,           \* per caller: the attempts of its executeOperation so far
    outcome,       \* per caller: how its executeOperation ended
    authed,        \* handles whose access() has resolved
    since,         \* what cleared the slot since the latest getConnection call:
                   \* "none", "invalidate" or "idle" (the idle callback)
    input,         \* the value handed to classifyFtpError and its context path
    output,        \* what classifyFtpError returned for it
    job,           \* the bulk operation in progress and the trees it works on
    stack,         \* the frames of the recursive walker, innermost last
    wpc,           \* where the bulk operation stands (the await it is in)
    op,            \* the executeOperation call in progress inside the walker
    log,           \* the calls made so far, on the session and on the disk
    result,        \* what the bulk operation returned or raised
    faults         \* number of calls that have failed so far

managerVars ==
    << client, isConnecting, lastActivity, idleTimer, hstate, sock, created,
       maxRetries, wrapped, pc, attempt, cur, got, undisturbed, failed, run,
       outcome, authed, since >>

classifyVars == << input, output >>

walkVars == << job, stack, wpc, op, log, result, faults >>

vars == << managerVars, classifyVars, walkVars >>

NoCall ==
    [kind |-> "none", h |-> Null, fresh |-> FALSE, waited |-> FALSE,
     waitOk |-> TRUE, timedOut |-> FALSE, prev |-> Null]

NoFailure == [h |-> Null, mark |-> 0, slot |-> Null, retry |-> FALSE]

NoRun == [calls |-> 0, allConnection |-> TRUE, opRetryable |-> FALSE,
          lastInOp |-> FALSE]

\* The manager as constructed, and no executeOperation call in progress.
InitPool ==
    /\ client = Null
    /\ isConnecting = FALSE
    /\ lastActivity = FALSE
    /\ idleTimer = "null"
    /\ hstate = [h \in Handles |-> "unused"]
    /\ sock = [h \in Handles |-> "bare"]
    /\ created = 0
    /\ pc = [p \in Callers |-> "idle"]
    /\ attempt = [p \in Callers |-> 0]
    /\ cur = [p \in Callers |-> Null]
    /\ got = [p \in Callers |-> NoCall]
    /\ undisturbed = [p \in Callers |-> Null]
    /\ failed = [p \in Callers |-> NoFailure]
    /\ run = [p \in Callers |-> NoRun]
    /\ outcome = [p \in Callers |-> "none"]
    /\ authed = {}
    /\ since = "none"

InitManager ==
    /\ InitPool
    /\ maxRetries \in 1 .. MaxRetriesCap

NoInput == [error |-> PlainError({}), path |-> {}]

NoJob == [kind |-> "none"]

NoOp == [kind |-> "none", path |-> << >>, attempt |-> 0]

NoResult == [done |-> FALSE, ok |-> FALSE, error |-> PlainError({})]

\* No classification on its own is in progress.
InitClassifyIdle ==
    /\ input = NoInput
    /\ output = PlainError({})

\* No bulk operation is in progress.
InitWalkIdle ==
    /\ job = NoJob
    /\ stack = << >>
    /\ wpc = "idle"
    /\ op = NoOp
    /\ log = << >>
    /\ result = NoResult
    /\ faults = 0

\* Both call paths use getConnection directly.
Init ==
    /\ InitManager
    /\ wrapped = {}
    /\ InitClassifyIdle
    /\ InitWalkIdle

\* The bulk path runs operations through executeOperation while the watcher
\* path calls getConnection directly.
InitRetry ==
    /\ InitManager
    /\ wrapped = {"bulk"}
    /\ InitClassifyIdle
    /\ InitWalkIdle

\* ----------------------------------------------------- connection manager
\* client.closed of basic-ftp: true until the socket is connected and again
\* once the client is closed; false while the login exchange is running.
Closed(h) == hstate[h] \in {"unused", "dialing", "closed"}

\* getConnection without its reuse branch: every call connects or waits
CanReuseNever == FALSE

\* getConnection: this.client && this.client.closed === false
CanReuse == client # Null /\ ~Closed(client)

\* clearIdleTimer: if (this.idleTimer) { clearTimeout(...); this.idleTimer = null }
clearIdleTimer(timer) == IF timer # "null" THEN "null" ELSE timer

\* resetIdleTimer: clearIdleTimer(); this.idleTimer = setTimeout(...)
resetIdleTimer(timer) == "armed"

\* The part of the manager that close() touches.
Slot == [client |-> client, idleTimer |-> idleTimer, hstate |-> hstate]

\* a close() that closes the handle and forgets the timer
closeLeavesTimer(m) ==
    [client |-> Null,
     idleTimer |-> m.idleTimer,
     hstate |-> IF m.client # Null
                THEN [m.hstate EXCEPT ![m.client] = "closed"]
                ELSE m.hstate]

\* close(): clear the timer; if a handle is in the slot, close it (a failure
\* of client.close() is caught and logged) and clear the slot.
close(m) ==
    [client |-> Null,
     idleTimer |-> clearIdleTimer(m.idleTimer),
     hstate |-> IF m.client # Null
                THEN [m.hstate EXCEPT ![m.client] = "closed"]
                ELSE m.hstate]

\* shutdown(): the same statements as close()
shutdown(m) ==
    [client |-> Null,
     idleTimer |-> clearIdleTimer(m.idleTimer),
     hstate |-> IF m.client # Null
                THEN [m.hstate EXCEPT ![m.client] = "closed"]
                ELSE m.hstate]

\* invalidateConnection() that only logs and leaves the slot as it is
invalidateConnectionKeeps(m) == m

\* invalidateConnection(): this.close()
invalidateConnection(m) == close(m)

\* the idle callback's condition: a handle is in the slot, lastActivity is
\* set and Date.now() - lastActivity >= idleTimeout.  The timer is re-armed
\* whenever lastActivity is stamped, so the duration has elapsed when it fires.
IdleExpired(m) == m.client # Null /\ lastActivity

\* an idle callback that never closes
IdleCallbackIdles(m) == m

\* the idle callback: if the condition holds, this.close()
IdleCallback(m) == IF IdleExpired(m) THEN close(m) ELSE m

\* waitForConnection after its loop: if (!this.client) throw
WaitThrows(c) == c = Null

\* getConnection after the wait: if (!this.client) throw
WaitFailed(c) == c = Null

\* setupConnectionHandlers: nothing without a client (or its socket);
\* otherwise the error and close listeners go on the socket of this.client
setupConnectionHandlers(c, sk) == IF c = Null THEN sk ELSE [sk EXCEPT ![c] = "on"]

\* --------------------------------------------------------- retry wrapper
\* a loop that gives up after the first failure, whatever it is
ShouldStopAlways(ftpError, n) == TRUE

\* a loop that ignores isRetryable and only counts attempts
ShouldStopAtLimit(ftpError, n) == n = maxRetries

\* executeOperation: if (!ftpError.isRetryable || attempt === maxRetries) break
ShouldStop(ftpError, n) == ~ftpError.isRetryable \/ n = maxRetries

\* context.filePath of the wrapped operations: a path whose text holds no marker
ContextPath == {}

Forget == [p \in Callers |-> Null]

\* The history of getConnection calls (got, undisturbed, since) is recorded
\* where both call paths use getConnection directly; the history of attempts
\* (failed, run, outcome) where a path runs inside executeOperation.
Observing == wrapped = {}

HandleLimit == IF Observing THEN MaxHandles ELSE MaxRetryHandles

Seen(p, call) == IF Observing THEN [got EXCEPT ![p] = call] ELSE got

Kept(u) == IF Observing THEN u ELSE undisturbed

Noted(s) == IF Observing THEN s ELSE since

Call(p, kind, h, fresh, waited, waitOk, timedOut) ==
    [kind |-> kind, h |-> h, fresh |-> fresh, waited |-> waited,
     waitOk |-> waitOk, timedOut |-> timedOut, prev |-> undisturbed[p]]

\* getConnection returns h to caller p, whose operation starts on it.
\* hs is the handle table at the moment of the return.
Return(p, h, hs, fresh, waited, waitOk, timedOut) ==
    /\ pc' = [pc EXCEPT ![p] = IF p \in wrapped THEN "running" ELSE "done"]
    /\ cur' = [cur EXCEPT ![p] = IF p \in wrapped THEN h ELSE Null]
    /\ got' = Seen(p,
                 Call(p, IF h = Null THEN "null"
                         ELSE IF hs[h] = "open" THEN "open" ELSE "notopen",
                      h, fresh, waited, waitOk, timedOut))
    /\ undisturbed' = Kept([undisturbed EXCEPT ![p] =
                         IF h # Null /\ hs[h] = "open" THEN h ELSE Null])

\* The catch block of executeOperation for caller p: thrown is what
\* getConnection or the operation raised, m the manager as the failing
\* segment left it, used the handle the operation ran on (Null if
\* getConnection itself threw).
Catch(p, thrown, m, used, invoked) ==
    LET ftpError == classifyFtpError(thrown, ContextPath)
        stop == ShouldStop(ftpError, attempt[p])
        m2 == IF stop THEN m ELSE invalidateConnection(m)
    IN  /\ client' = m2.client
        /\ idleTimer' = m2.idleTimer
        /\ hstate' = m2.hstate
        /\ pc' = [pc EXCEPT ![p] = IF stop THEN "done" ELSE "backoff"]
        /\ cur' = [cur EXCEPT ![p] = Null]
        /\ run' = [run EXCEPT ![p] =
                     [calls |-> IF invoked THEN @.calls + 1 ELSE @.calls,
                      allConnection |-> /\ @.allConnection
                                        /\ invoked
                                        /\ ftpError.code = "CONNECTION_ERROR",
                      opRetryable |-> \/ @.opRetryable
                                      \/ invoked /\ ftpError.isRetryable,
                      lastInOp |-> invoked]]
        /\ outcome' = [outcome EXCEPT ![p] =
                         IF stop THEN ftpError.code ELSE @]
        /\ failed' = [failed EXCEPT ![p] =
                        [h |-> used, mark |-> created, slot |-> m2.client,
                         retry |-> ~stop]]
        /\ since' = Noted(IF stop THEN since ELSE "invalidate")
        /\ undisturbed' =
             Kept(IF ~stop THEN Forget
                  ELSE IF invoked THEN undisturbed
                  ELSE [undisturbed EXCEPT ![p] = Null])

\* A direct caller of getConnection sees it throw; m is the manager as the
\* failing segment left it.
Rethrow(p, m) ==
    /\ client' = m.client
    /\ idleTimer' = m.idleTimer
    /\ hstate' = m.hstate
    /\ pc' = [pc EXCEPT ![p] = "done"]
    /\ cur' = [cur EXCEPT ![p] = Null]
    /\ undisturbed' = Kept([undisturbed EXCEPT ![p] = Null])
    /\ UNCHANGED << run, outcome, failed, since >>

\* getConnection throws to caller p.
Throw(p, thrown, m) ==
    IF p \in wrapped THEN Catch(p, thrown, m, Null, FALSE) ELSE Rethrow(p, m)

\* A caller reaches getConnection: directly, on entry to executeOperation
\* (attempt 1) or after a backoff sleep (attempt + 1).  getConnection runs
\* to its first await.
GetConnection(p) ==
    /\ UNCHANGED << classifyVars, walkVars >>
    /\ pc[p] \in {"idle", "backoff"}
    /\ attempt' = [attempt EXCEPT ![p] = IF pc[p] = "idle" THEN 1 ELSE @ + 1]
    /\ lastActivity' = TRUE
    /\ idleTimer' = resetIdleTimer(idleTimer)
    /\ since' = Noted("none")
    /\ UNCHANGED << sock, maxRetries, wrapped, authed, failed, run, outcome >>
    /\ IF CanReuse
       THEN /\ Return(p, client, hstate, FALSE, FALSE, TRUE, FALSE)
            /\ UNCHANGED << client, isConnecting, hstate, created >>
       ELSE IF isConnecting
       THEN /\ pc' = [pc EXCEPT ![p] = "waiting"]
            /\ cur' = [cur EXCEPT ![p] =
                         CHOOSE h \in Handles \cup {Null} :
                            \/ \E q \in Callers :
                                  pc[q] = "connecting" /\ cur[q] = h
                            \/ /\ h = Null
                               /\ \A q \in Callers : pc[q] # "connecting"]
            /\ got' = Seen(p,
                         Call(p, "none", Null, FALSE, TRUE, TRUE, FALSE))
            /\ undisturbed' = Kept([undisturbed EXCEPT ![p] = Null])
            /\ UNCHANGED << client, isConnecting, hstate, created >>
       ELSE \* connect(): flag, new Client(), access() is awaited
            /\ created < HandleLimit
            /\ created' = created + 1
            /\ isConnecting' = TRUE
            /\ client' = created + 1
            /\ hstate' = [hstate EXCEPT ![created + 1] = "dialing"]
            /\ pc' = [pc EXCEPT ![p] = "connecting"]
            /\ cur' = [cur EXCEPT ![p] = created + 1]
            /\ got' = Seen(p,
                         Call(p, "none", Null, TRUE, FALSE, TRUE, FALSE))
            /\ undisturbed' = Kept([undisturbed EXCEPT ![p] = Null])

\* The TCP connection of the handle in access() is established: the client
\* no longer reports closed while the login exchange runs.
Connected(p) ==
    /\ UNCHANGED << classifyVars, walkVars >>
    /\ pc[p] = "connecting"
    /\ hstate[cur[p]] = "dialing"
    /\ hstate' = [hstate EXCEPT ![cur[p]] = "login"]
    /\ UNCHANGED << client, isConnecting, lastActivity, idleTimer, sock,
                    created, maxRetries, wrapped, pc, attempt, cur, got,
                    undisturbed, failed, run, outcome, authed, since >>

\* access() resolves: connect() installs the handlers on this.client,
\* returns this.client and clears the flag.
ConnectOk(p) ==
    /\ UNCHANGED << classifyVars, walkVars >>
    /\ pc[p] = "connecting"
    /\ hstate[cur[p]] = "login"
    /\ hstate' = [hstate EXCEPT ![cur[p]] = "open"]
    /\ authed' = IF Observing THEN authed \cup {cur[p]} ELSE authed
    /\ sock' = setupConnectionHandlers(client, sock)
    /\ isConnecting' = FALSE
    /\ Return(p, client, hstate', TRUE, FALSE, TRUE, FALSE)
    /\ UNCHANGED << client, lastActivity, idleTimer, created, maxRetries,
                    wrapped, attempt, failed, run, outcome, since >>

\* access() rejects (refused, login rejected, timed out, or the client was
\* closed under it): connect() classifies, clears the slot and the flag and
\* throws into the catch block of executeOperation.
ConnectFail(p, raw) ==
    /\ UNCHANGED << classifyVars, walkVars >>
    /\ pc[p] = "connecting"
    /\ hstate[cur[p]] \in {"dialing", "login", "closed"}
    /\ isConnecting' = FALSE
    /\ Throw(p, classifyFtpError(raw, {}),
             [client |-> Null, idleTimer |-> idleTimer,
              hstate |-> [hstate EXCEPT ![cur[p]] = "closed"]])
    /\ got' = Seen(p,
                 Call(p, "threw", Null, TRUE, FALSE, TRUE, FALSE))
    /\ UNCHANGED << lastActivity, sock, created, maxRetries, wrapped, attempt,
                    authed >>

\* The end of waitForConnection and the rest of getConnection, for a caller
\* whose loop left because of timedOut (the maximum wait was reached) or
\* because the flag was cleared.
WaitExit(p, timedOut) ==
    LET settled == cur[p] # Null /\ cur[p] \in authed
    IN  IF WaitThrows(client)
        THEN /\ Throw(p, WaitTimeoutError, Slot)
             /\ got' = Seen(p,
                          Call(p, "threw", Null, FALSE, TRUE, ~settled, timedOut))
        ELSE IF WaitFailed(client)
        THEN /\ Throw(p, WaitFailedError, Slot)
             /\ got' = Seen(p,
                          Call(p, "threw", Null, FALSE, TRUE, ~settled, timedOut))
        ELSE /\ Return(p, client, hstate, FALSE, TRUE,
                       ~settled \/ client = cur[p], timedOut)
             /\ UNCHANGED << client, idleTimer, hstate, failed, run, outcome,
                             since >>

\* A poll of waitForConnection finds the flag cleared.
WaitDone(p) ==
    /\ UNCHANGED << classifyVars, walkVars >>
    /\ pc[p] = "waiting"
    /\ ~isConnecting
    /\ WaitExit(p, FALSE)
    /\ UNCHANGED << isConnecting, lastActivity, sock, created, maxRetries,
                    wrapped, attempt, authed >>

\* A poll of waitForConnection finds the flag still set and
\* Date.now() - start >= maxWait.
WaitTimeout(p) ==
    /\ UNCHANGED << classifyVars, walkVars >>
    /\ pc[p] = "waiting"
    /\ isConnecting
    /\ WaitExit(p, TRUE)
    /\ UNCHANGED << isConnecting, lastActivity, sock, created, maxRetries,
                    wrapped, attempt, authed >>

\* operation(client) resolves: executeOperation returns the result.
OpOk(p) ==
    /\ UNCHANGED << classifyVars, walkVars >>
    /\ pc[p] = "running"
    /\ cur[p] # Null
    /\ hstate[cur[p]] = "open"
    /\ pc' = [pc EXCEPT ![p] = "done"]
    /\ cur' = [cur EXCEPT ![p] = Null]
    /\ run' = [run EXCEPT ![p] = [@ EXCEPT !.calls = @ + 1, !.lastInOp = TRUE]]
    /\ outcome' = [outcome EXCEPT ![p] = "ok"]
    /\ UNCHANGED << client, isConnecting, lastActivity, idleTimer, hstate,
                    sock, created, maxRetries, wrapped, attempt, got,
                    undisturbed, failed, authed, since >>

\* operation(client) rejects with raw: on null the dereference fails, on a
\* handle the command fails with whatever the client raises.
OpFail(p, raw) ==
    /\ UNCHANGED << classifyVars, walkVars >>
    /\ pc[p] = "running"
    /\ cur[p] = Null => raw = NullDereference
    /\ Catch(p, raw, Slot, cur[p], TRUE)
    /\ UNCHANGED << isConnecting, lastActivity, sock, created, maxRetries,
                    wrapped, attempt, got, authed >>

\* The call has returned or thrown; the caller is free for its next one.
Finish(p) ==
    /\ UNCHANGED << classifyVars, walkVars >>
    /\ pc[p] = "done"
    /\ pc' = [pc EXCEPT ![p] = "idle"]
    /\ attempt' = [attempt EXCEPT ![p] = 0]
    /\ got' = Seen(p, NoCall)
    /\ failed' = [failed EXCEPT ![p] = NoFailure]
    /\ run' = [run EXCEPT ![p] = NoRun]
    /\ outcome' = [outcome EXCEPT ![p] = "none"]
    /\ UNCHANGED << client, isConnecting, lastActivity, idleTimer, hstate,
                    sock, created, maxRetries, wrapped, cur, undisturbed,
                    authed, since >>

\* close() called from outside the retry wrapper.
Close ==
    /\ UNCHANGED << classifyVars, walkVars >>
    /\ client' = close(Slot).client
    /\ idleTimer' = close(Slot).idleTimer
    /\ hstate' = close(Slot).hstate
    /\ undisturbed' = Kept(Forget)
    /\ UNCHANGED << isConnecting, lastActivity, sock, created, maxRetries,
                    wrapped, pc, attempt, cur, got, failed, run, outcome,
                    authed, since >>

\* shutdown() called by the command layer.
Shutdown ==
    /\ UNCHANGED << classifyVars, walkVars >>
    /\ client' = shutdown(Slot).client
    /\ idleTimer' = shutdown(Slot).idleTimer
    /\ hstate' = shutdown(Slot).hstate
    /\ undisturbed' = Kept(Forget)
    /\ UNCHANGED << isConnecting, lastActivity, sock, created, maxRetries,
                    wrapped, pc, attempt, cur, got, failed, run, outcome,
                    authed, since >>

\* invalidateConnection() called from outside the retry wrapper.
Invalidate ==
    /\ UNCHANGED << classifyVars, walkVars >>
    /\ client' = invalidateConnection(Slot).client
    /\ idleTimer' = invalidateConnection(Slot).idleTimer
    /\ hstate' = invalidateConnection(Slot).hstate
    /\ undisturbed' = Kept(Forget)
    /\ since' = Noted("invalidate")
    /\ UNCHANGED << isConnecting, lastActivity, sock, created, maxRetries,
                    wrapped, pc, attempt, cur, got, failed, run, outcome,
                    authed >>

\* The idle timeout fires and its callback runs.
IdleTimerExpired ==
    /\ UNCHANGED << classifyVars, walkVars >>
    /\ idleTimer = "armed"
    /\ LET fired == [Slot EXCEPT !.idleTimer = "spent"]
       IN  /\ client' = IdleCallback(fired).client
           /\ idleTimer' = IdleCallback(fired).idleTimer
           /\ hstate' = IdleCallback(fired).hstate
           /\ undisturbed' = Kept(IF IdleExpired(fired) THEN Forget ELSE undisturbed)
           /\ since' = Noted(IF IdleExpired(fired) THEN "idle" ELSE since)
    /\ UNCHANGED << isConnecting, lastActivity, sock, created, maxRetries,
                    wrapped, pc, attempt, cur, got, failed, run, outcome,
                    authed >>

\* The listeners of handle h's socket: this.client = null; clearIdleTimer().
\* The socket that emitted the event is dead.  The manager never removes a
\* listener, so the socket of a handle that has left the slot can still
\* notify it.
SocketListener(h, next) ==
    /\ UNCHANGED << classifyVars, walkVars >>
    /\ sock' = [sock EXCEPT ![h] = next]
    /\ hstate' = [hstate EXCEPT ![h] = "closed"]
    /\ client' = Null
    /\ idleTimer' = clearIdleTimer(idleTimer)
    /\ undisturbed' = Kept(Forget)
    /\ UNCHANGED << isConnecting, lastActivity, created, maxRetries, wrapped,
                    pc, attempt, cur, got, failed, run, outcome, authed,
                    since >>

\* The socket of handle h emits error.
SocketError(h) ==
    /\ sock[h] = "on"
    /\ SocketListener(h, "erred")

\* The socket of handle h emits close (on its own or after an error).
SocketClose(h) ==
    /\ sock[h] \in {"on", "erred"}
    /\ SocketListener(h, "gone")

\* Two call paths using getConnection directly, and the environment.
Next ==
    \/ \E p \in Callers : GetConnection(p)
    \/ \E p \in Callers : Connected(p)
    \/ \E p \in Callers : ConnectOk(p)
    \/ \E p \in Callers, raw \in RawErrors : ConnectFail(p, raw)
    \/ \E p \in Callers : WaitDone(p)
    \/ \E p \in Callers : WaitTimeout(p)
    \/ \E p \in Callers : Finish(p)
    \/ Close
    \/ Shutdown
    \/ Invalidate
    \/ IdleTimerExpired
    \/ \E h \in Handles : SocketError(h)
    \/ \E h \in Handles : SocketClose(h)

Spec == Init /\ [][Next]_vars

\* The same, with the operations of the retry wrapper.
NextRetry ==
    \/ \E p \in Callers : GetConnection(p)
    \/ \E p \in Callers : Connected(p)
    \/ \E p \in Callers : ConnectOk(p)
    \/ \E p \in Callers, raw \in RawErrors : ConnectFail(p, raw)
    \/ \E p \in Callers : WaitDone(p)
    \/ \E p \in Callers : WaitTimeout(p)
    \/ \E p \in Callers : OpOk(p)
    \/ \E p \in Callers, raw \in RawErrors : OpFail(p, raw)
    \/ \E p \in Callers : Finish(p)
    \/ Close
    \/ Shutdown
    \/ Invalidate
    \/ IdleTimerExpired
    \/ \E h \in Handles : SocketError(h)
    \/ \E h \in Handles : SocketClose(h)

SpecRetry == InitRetry /\ [][NextRetry]_vars

\* ------------------------------------------------- the classifier alone
\* Every marker the classifier looks for, and the other spellings.
Markers ==
    ConnectionMarkers \cup AuthMarkers \cup NotFoundMarkers
       \cup PermissionMarkers \cup TimeoutMarkers \cup UpperCased

\* The messages a raw failure can carry: up to MaxMarkers marker occurrences.
Messages == {m \in SUBSET Markers : Cardinality(m) <= MaxMarkers}

\* What the text of context.filePath can contain.
PathTexts == {{}, {"login"}, {"timeout"}}

\* Nothing has been classified yet.
NoOutput ==
    [isError |-> FALSE, code |-> "NOT_RUN", isRetryable |-> FALSE, marks |-> {}]

\* Any Error object and any thrown value that is no Error, with any context.
InitClassify ==
    /\ InitManager
    /\ wrapped = {}
    /\ InitWalkIdle
    /\ input \in [error : {PlainError(m) : m \in Messages}
                             \cup {NonError(m) : m \in Messages},
                  path : PathTexts]
    /\ output = NoOutput

\* classifyFtpError(error, { filePath })
Classify ==
    /\ output = NoOutput
    /\ output' = classifyFtpError(input.error, input.path)
    /\ UNCHANGED << input, managerVars, walkVars >>

NextClassify == Classify

SpecClassify == InitClassify /\ [][NextClassify]_vars

\* ------------------------------------------------------ bulk operations
\* A call on the session or on the disk either succeeds or fails with one of
\* these: a transient failure and a permanent one.
Fine == [isError |-> FALSE, code |-> "OK", isRetryable |-> FALSE, marks |-> {}]

WalkErrors ==
    { PlainError({"ECONNRESET"}), PlainError({"550", "no such file"}) }

Outcomes == {Fine} \cup WalkErrors

\* What getConnection() hands to a bulk operation: a handle, or the error
\* connect() classified.
Connections == {Fine} \cup {classifyFtpError(raw, {}) : raw \in WalkErrors}

\* An outcome the environment may choose now: failures are limited.
Allowed(how) == how = Fine \/ faults < MaxFaults

\* item.type of a listing entry: a number or a string
NumberType(n) == [isNumber |-> TRUE, n |-> n, s |-> ""]

StringType(str) == [isNumber |-> FALSE, n |-> 0, s |-> str]

ItemTypes ==
    {NumberType(n) : n \in 0 .. 3}
       \cup {StringType(str) : str \in {"0", "1", "2", "3", "d", "-", "l"}}

\* String(item.type)
String(t) ==
    IF t.isNumber
    THEN CASE t.n = 0 -> "0" [] t.n = 1 -> "1" [] t.n = 2 -> "2"
           [] t.n = 3 -> "3" [] OTHER -> "NaN"
    ELSE t.s

\* a test that compares item.type with the character code only
isDirectoryByLetter(t) == String(t) = "d"

\* typeStr === "d" || typeStr === "2" || item.type === 2
isDirectory(t) ==
    String(t) = "d" \/ String(t) = "2" \/ (t.isNumber /\ t.n = 2)

\* typeStr === "-" || typeStr === "1" || item.type === 1
isFile(t) ==
    String(t) = "-" \/ String(t) = "1" \/ (t.isNumber /\ t.n = 1)

\* The remote tree of a download: two entries under the root, of the types
\* the job names; under each of them, should it be listed, one regular file.
RemoteListing(path) ==
    IF path = << >>
    THEN << [name |-> "e1", type |-> job.types[1]],
            [name |-> "e2", type |-> job.types[2]] >>
    ELSE IF Len(path) = 1
    THEN << [name |-> "f", type |-> StringType("-")] >>
    ELSE << >>

\* The markers in the text of a path of these trees: none.
PathText(path) == {}

\* An entry of the log, written when the call settles: the call, the path
\* it was about and how it ended ("OK" or the code its failure classifies to).
Event(cmd, path, how) ==
    [cmd |-> cmd, path |-> path,
     code |-> IF how = Fine THEN "OK" ELSE classifyFtpError(how, {}).code]

\* The call settles as how: it is logged and a failure is counted.
Settle(cmd, path, how) ==
    /\ Allowed(how)
    /\ faults' = IF how = Fine THEN faults ELSE faults + 1

\* An error thrown inside the walker passes the catch block of every
\* enclosing downloadDirectory/uploadDirectory call (frames, innermost
\* last), each classifying it again with its own path.
RECURSIVE Unwind(_, _)
Unwind(err, frames) ==
    IF frames = << >>
    THEN err
    ELSE Unwind(classifyFtpError(err, PathText(frames[Len(frames)].path)),
                SubSeq(frames, 1, Len(frames) - 1))

\* The catch block of downloadAll/uploadAll: classifyFtpError(err); throw
Raise(err) ==
    /\ result' = [done |-> TRUE, ok |-> FALSE,
                  error |-> classifyFtpError(err, {})]
    /\ wpc' = "done"
    /\ stack' = << >>

\* ------------------------------------------------------------- download
\* fsSync.existsSync on the local side of a download: nothing is there, only
\* the root is, or the whole tree is.
LocalRootExists == job.local # "absent"

LocalDirExists(path) == job.local = "full"

\* downloadDirectory from the current item of the innermost frame up to its
\* next await: a directory is created locally if missing and then entered
\* (getConnection), a regular file is downloaded, anything else is skipped
\* with a warning; past the last item the call returns to the enclosing
\* loop, and the outermost return ends downloadAll with true.
RECURSIVE WalkDown(_, _)
WalkDown(frames, lg) ==
    IF frames = << >>
    THEN [stack |-> frames, wpc |-> "done", log |-> lg]
    ELSE LET top == frames[Len(frames)]
             items == RemoteListing(top.path)
             rest == SubSeq(frames, 1, Len(frames) - 1)
             step == [top EXCEPT !.i = @ + 1]
         IN  IF top.i > Len(items)
             THEN IF rest = << >>
                  THEN WalkDown(rest, lg)
                  ELSE WalkDown([rest EXCEPT ![Len(rest)].i = @ + 1], lg)
             ELSE LET item == items[top.i]
                      path == Append(top.path, item.name)
                  IN  IF isDirectory(item.type)
                      THEN IF LocalDirExists(path)
                           THEN [stack |-> Append(frames, [path |-> path, i |-> 0]),
                                 wpc |-> "dirConn",
                                 log |-> Append(lg, Event("explore", path, Fine))]
                           ELSE [stack |-> frames, wpc |-> "itemMkdir", log |-> lg]
                      ELSE IF isFile(item.type)
                      THEN [stack |-> frames, wpc |-> "download", log |-> lg]
                      ELSE WalkDown(Append(rest, step),
                                    Append(lg, Event("skip", path, Fine)))

\* The walker goes on as next says.
Continue(next) ==
    /\ stack' = next.stack
    /\ wpc' = next.wpc
    /\ log' = next.log
    /\ result' = IF next.wpc = "done"
                 THEN [done |-> TRUE, ok |-> TRUE, error |-> Fine]
                 ELSE result

\* The path of the item the innermost frame is at.
ItemPath ==
    LET top == stack[Len(stack)]
    IN  Append(top.path, RemoteListing(top.path)[top.i].name)

\* downloadAll up to its first await: the local root is created if missing,
\* otherwise getConnection() is called.
DownloadAll ==
    /\ job.kind = "downloadAll"
    /\ wpc = "idle"
    /\ wpc' = IF LocalRootExists THEN "rootConn" ELSE "rootMkdir"
    /\ UNCHANGED << job, stack, op, log, result, faults >>
    /\ UNCHANGED << managerVars, classifyVars >>

\* fs.mkdir(localBasePath) settles; then getConnection() is called.
RootMkdir(how) ==
    /\ job.kind = "downloadAll"
    /\ wpc = "rootMkdir"
    /\ Settle("mkdir", << >>, how)
    /\ IF how = Fine
       THEN /\ wpc' = "rootConn"
            /\ log' = Append(log, Event("mkdir", << >>, how))
            /\ UNCHANGED << stack, result >>
       ELSE /\ Raise(how)
            /\ log' = Append(log, Event("mkdir", << >>, how))
    /\ UNCHANGED << job, op >>
    /\ UNCHANGED << managerVars, classifyVars >>

\* getConnection() settles; then client.list(remoteBasePath) is issued.
RootConnection(how) ==
    /\ job.kind = "downloadAll"
    /\ wpc = "rootConn"
    /\ Settle("getConnection", << >>, how)
    /\ log' = Append(log, Event("getConnection", << >>, how))
    /\ IF how = Fine
       THEN /\ wpc' = "rootList"
            /\ UNCHANGED << stack, result >>
       ELSE Raise(how)
    /\ UNCHANGED << job, op >>
    /\ UNCHANGED << managerVars, classifyVars >>

\* client.list(remoteBasePath) settles; then downloadDirectory starts on the
\* root and calls getConnection().
RootList(how) ==
    /\ job.kind = "downloadAll"
    /\ wpc = "rootList"
    /\ Settle("list", << >>, how)
    /\ IF how = Fine
       THEN /\ wpc' = "dirConn"
            /\ stack' = << [path |-> << >>, i |-> 0] >>
            /\ log' = log \o << Event("list", << >>, how),
                                Event("explore", << >>, Fine) >>
            /\ UNCHANGED result
       ELSE /\ Raise(how)
            /\ log' = Append(log, Event("list", << >>, how))
    /\ UNCHANGED << job, op >>
    /\ UNCHANGED << managerVars, classifyVars >>

\* getConnection() of downloadDirectory settles; it is outside the try block
\* of its own call, so its error goes to the enclosing calls as it is.
DirConnection(how) ==
    /\ job.kind = "downloadAll"
    /\ wpc = "dirConn"
    /\ Settle("getConnection", stack[Len(stack)].path, how)
    /\ log' = Append(log, Event("getConnection", stack[Len(stack)].path, how))
    /\ IF how = Fine
       THEN /\ wpc' = "dirList"
            /\ UNCHANGED << stack, result >>
       ELSE Raise(Unwind(how, SubSeq(stack, 1, Len(stack) - 1)))
    /\ UNCHANGED << job, op >>
    /\ UNCHANGED << managerVars, classifyVars >>

\* client.list(remotePath) of downloadDirectory settles; the loop over the
\* listing starts.
DirList(how) ==
    /\ job.kind = "downloadAll"
    /\ wpc = "dirList"
    /\ Settle("list", stack[Len(stack)].path, how)
    /\ LET lg == Append(log, Event("list", stack[Len(stack)].path, how))
       IN  IF how = Fine
           THEN Continue(WalkDown([stack EXCEPT ![Len(stack)].i = 1], lg))
           ELSE /\ Raise(Unwind(how, stack))
                /\ log' = lg
    /\ UNCHANGED << job, op >>
    /\ UNCHANGED << managerVars, classifyVars >>

\* fs.mkdir(localItemPath) settles; then the directory is entered.
ItemMkdir(how) ==
    /\ job.kind = "downloadAll"
    /\ wpc = "itemMkdir"
    /\ Settle("mkdir", ItemPath, how)
    /\ IF how = Fine
       THEN /\ stack' = Append(stack, [path |-> ItemPath, i |-> 0])
            /\ wpc' = "dirConn"
            /\ log' = log \o << Event("mkdir", ItemPath, how),
                                Event("explore", ItemPath, Fine) >>
            /\ UNCHANGED result
       ELSE /\ Raise(Unwind(how, stack))
            /\ log' = Append(log, Event("mkdir", ItemPath, how))
    /\ UNCHANGED << job, op >>
    /\ UNCHANGED << managerVars, classifyVars >>

\* client.downloadTo(localItemPath, remoteItemPath) settles; a failure is
\* logged and the loop goes to the next item.
DownloadTo(how) ==
    /\ job.kind = "downloadAll"
    /\ wpc = "download"
    /\ Settle("downloadTo", ItemPath, how)
    /\ Continue(WalkDown([stack EXCEPT ![Len(stack)].i = @ + 1],
                         Append(log, Event("downloadTo", ItemPath, how))))
    /\ UNCHANGED << job, op >>
    /\ UNCHANGED << managerVars, classifyVars >>

\* A download of a remote tree whose two root entries have any two types,
\* into a local directory in any of its three states.
InitDownload ==
    /\ InitManager
    /\ wrapped = {}
    /\ InitClassifyIdle
    /\ job \in [kind : {"downloadAll"},
                local : {"absent", "root", "full"},
                types : [1 .. 2 -> ItemTypes]]
    /\ stack = << >>
    /\ wpc = "idle"
    /\ op = NoOp
    /\ log = << >>
    /\ result = NoResult
    /\ faults = 0

NextDownload ==
    \/ DownloadAll
    \/ \E how \in Outcomes : RootMkdir(how)
    \/ \E how \in Connections : RootConnection(how)
    \/ \E how \in Outcomes : RootList(how)
    \/ \E how \in Connections : DirConnection(how)
    \/ \E how \in Outcomes : DirList(how)
    \/ \E how \in Outcomes : ItemMkdir(how)
    \/ \E how \in Outcomes : DownloadTo(how)

SpecDownload == InitDownload /\ [][NextDownload]_vars

\* --------------------------------------------------------------- upload
\* The local trees of an upload, by directory (a path relative to the root):
\* "nested" is {a.txt, sub/b.txt}, "flat" three regular files, "mixed" a
\* directory, an entry that is neither file nor directory, and a file,
\* "deep" is {d1/d2/x, d1/y, z}.
LocalListing(tree, path) ==
    CASE tree = "nested" /\ path = << >> ->
            << [name |-> "a.txt", kind |-> "file"],
               [name |-> "sub", kind |-> "dir"] >>
      [] tree = "nested" /\ path = << "sub" >> ->
            << [name |-> "b.txt", kind |-> "file"] >>
      [] tree = "flat" /\ path = << >> ->
            << [name |-> "f1", kind |-> "file"],
               [name |-> "f2", kind |-> "file"],
               [name |-> "f3", kind |-> "file"] >>
      [] tree = "mixed" /\ path = << >> ->
            << [name |-> "d", kind |-> "dir"],
               [name |-> "o", kind |-> "other"],
               [name |-> "h", kind |-> "file"] >>
      [] tree = "mixed" /\ path = << "d" >> ->
            << [name |-> "g", kind |-> "file"] >>
      [] tree = "deep" /\ path = << >> ->
            << [name |-> "d1", kind |-> "dir"],
               [name |-> "z", kind |-> "file"] >>
      [] tree = "deep" /\ path = << "d1" >> ->
            << [name |-> "d2", kind |-> "dir"],
               [name |-> "y", kind |-> "file"] >>
      [] tree = "deep" /\ path = << "d1", "d2" >> ->
            << [name |-> "x", kind |-> "file"] >>
      [] OTHER -> << >>

\* path.dirname(remotePath)
dirname(path) == SubSeq(path, 1, Len(path) - 1)

\* an operation that calls ensureDir on the path it was given
ensureDirTargetSelf(o) == o.path

\* The directory an operation calls client.ensureDir on: createDirectory the
\* directory itself, uploadFile the parent of the remote file.
ensureDirTarget(o) == IF o.kind = "mkd" THEN o.path ELSE dirname(o.path)

\* an upload that goes ahead without looking at the local file
LocalFileMissingIgnored(exists) == FALSE

\* uploadFile: !fsSync.existsSync(localPath)
LocalFileMissing(exists) == ~exists

\* new FtpError(`Local ... does not exist: ${path}`, "FILE_NOT_FOUND")
LocalNotFound(text) == FtpError(text, "FILE_NOT_FOUND")

\* What the walker does next: where it stands, with which operation, or the
\* error it raises.
Going(frames, phase, o, lg) ==
    [stack |-> frames, wpc |-> phase, op |-> o, log |-> lg, error |-> Fine]

Raising(err, lg) ==
    [stack |-> << >>, wpc |-> "raise", op |-> NoOp, log |-> lg,
     error |-> err]

\* executeOperation starts: attempt 1 calls getConnection().
Start(kind, path) == [kind |-> kind, path |-> path, attempt |-> 1]

\* uploadDirectory from the current entry of the innermost frame up to its
\* next await: a directory is created remotely (createDirectory), a regular
\* file is uploaded (uploadFile, whose error for a missing local file is
\* caught on the spot), anything else is skipped with a warning; past the
\* last entry the call returns to the enclosing loop, and the outermost
\* return ends uploadAll with true.
RECURSIVE WalkUp(_, _)
WalkUp(frames, lg) ==
    IF frames = << >>
    THEN Going(frames, "done", NoOp, lg)
    ELSE LET top == frames[Len(frames)]
             entries == LocalListing(job.tree, top.path)
             rest == SubSeq(frames, 1, Len(frames) - 1)
             step == Append(rest, [top EXCEPT !.i = @ + 1])
         IN  IF top.i > Len(entries)
             THEN IF rest = << >>
                  THEN WalkUp(rest, lg)
                  ELSE WalkUp([rest EXCEPT ![Len(rest)].i = @ + 1], lg)
             ELSE LET entry == entries[top.i]
                      path == Append(top.path, entry.name)
                  IN  IF entry.kind = "dir"
                      THEN Going(frames, "opConn", Start("mkd", path),
                                 Append(lg, Event("createDirectory", path,
                                                  Fine)))
                      ELSE IF entry.kind = "file"
                      THEN IF LocalFileMissing(entry.name # job.gone)
                           THEN WalkUp(step,
                                       Append(lg, Event("uploadFile", path,
                                                        LocalNotFound({}))))
                           ELSE Going(frames, "opConn", Start("upload", path),
                                      lg)
                      ELSE WalkUp(step, Append(lg, Event("skip", path, Fine)))

\* a walker whose catch around uploadFile throws the error on
FileFailedRethrown(ftpError, frames, lg) == Raising(Unwind(ftpError, frames), lg)

\* uploadFile has thrown inside the walker: the catch around it logs the
\* error and the loop goes to the next entry.
FileFailed(ftpError, frames, lg) ==
    WalkUp([frames EXCEPT ![Len(frames)].i = @ + 1], lg)

\* a walker that treats a directory that could not be created like a file
\* that could not be uploaded
GiveUpSkipsDirectory(ftpError, lg) ==
    IF stack = << >>
    THEN Raising(ftpError, lg)
    ELSE FileFailed(ftpError, stack,
                    Append(lg, Event("uploadFile", op.path, ftpError)))

\* executeOperation gives up and throws ftpError to the method that called
\* it: a direct uploadFile call throws it to its caller, uploadFile inside
\* the walker is caught there, createDirectory inside the walker throws it
\* through the catch block of every uploadDirectory call.
GiveUp(ftpError, lg) ==
    IF stack = << >>
    THEN Raising(ftpError, lg)
    ELSE IF op.kind = "upload"
    THEN FileFailed(ftpError, stack,
                    Append(lg, Event("uploadFile", op.path, ftpError)))
    ELSE Raising(Unwind(ftpError, stack), lg)

\* The operation has returned: a direct uploadFile call returns true, in
\* the walker the loop goes on (after createDirectory, into the directory:
\* uploadDirectory awaits fs.readdir).
Returned(lg) ==
    IF stack = << >>
    THEN Going(<< >>, "done", NoOp, lg)
    ELSE IF op.kind = "upload"
    THEN WalkUp([stack EXCEPT ![Len(stack)].i = @ + 1],
                Append(lg, Event("uploadFile", op.path, Fine)))
    ELSE Going(Append(stack, [path |-> op.path, i |-> 0]), "readdir", NoOp,
               lg)

\* The bulk operation goes on as next says; an error raised inside the
\* walker reaches the catch block of uploadAll, one raised by a direct call
\* goes to the caller as it is.
Proceed(next) ==
    /\ stack' = next.stack
    /\ op' = next.op
    /\ log' = next.log
    /\ wpc' = IF next.wpc = "raise" THEN "done" ELSE next.wpc
    /\ result' =
         IF next.wpc = "done"
         THEN [done |-> TRUE, ok |-> TRUE, error |-> Fine]
         ELSE IF next.wpc = "raise"
         THEN [done |-> TRUE, ok |-> FALSE,
               error |-> IF job.kind = "uploadAll"
                         THEN classifyFtpError(next.error, {})
                         ELSE next.error]
         ELSE result

\* The catch block of executeOperation inside a bulk operation.
OpCatch(thrown, lg) ==
    LET ftpError == classifyFtpError(thrown, PathText(op.path))
    IN  IF ShouldStop(ftpError, op.attempt)
        THEN Proceed(GiveUp(ftpError, lg))
        ELSE Proceed(Going(stack, "opBackoff", op,
                           Append(lg, Event("invalidateConnection", op.path,
                                            Fine))))

\* uploadAll up to its first await: a missing local root throws
\* FILE_NOT_FOUND inside the try block, otherwise fs.readdir is called.
UploadAll ==
    /\ job.kind = "uploadAll"
    /\ wpc = "idle"
    /\ IF job.exists
       THEN Proceed(Going(<< >>, "rootRead", NoOp, log))
       ELSE Proceed(Raising(LocalNotFound(job.text), log))
    /\ UNCHANGED << job, faults >>
    /\ UNCHANGED << managerVars, classifyVars >>

\* uploadFile called on its own: a missing local file throws FILE_NOT_FOUND
\* before executeOperation is entered.
UploadFile ==
    /\ job.kind = "uploadFile"
    /\ wpc = "idle"
    /\ IF LocalFileMissing(job.exists)
       THEN Proceed(Raising(LocalNotFound(job.text), log))
       ELSE Proceed(Going(<< >>, "opConn", Start("upload", << "a.txt" >>),
                          log))
    /\ UNCHANGED << job, faults >>
    /\ UNCHANGED << managerVars, classifyVars >>

\* fs.readdir(localBasePath) of uploadAll settles; then getConnection().
UploadRootReaddir(how) ==
    /\ job.kind = "uploadAll"
    /\ wpc = "rootRead"
    /\ Settle("readdir", << >>, how)
    /\ LET lg == Append(log, Event("readdir", << >>, how))
       IN  IF how = Fine
           THEN Proceed(Going(<< >>, "rootConn", NoOp, lg))
           ELSE Proceed(Raising(how, lg))
    /\ UNCHANGED job
    /\ UNCHANGED << managerVars, classifyVars >>

\* getConnection() of uploadAll settles; then client.ensureDir on the
\* remote root, outside executeOperation.
UploadRootConnection(how) ==
    /\ job.kind = "uploadAll"
    /\ wpc = "rootConn"
    /\ Settle("getConnection", << >>, how)
    /\ LET lg == Append(log, Event("getConnection", << >>, how))
       IN  IF how = Fine
           THEN Proceed(Going(<< >>, "rootEnsure", NoOp, lg))
           ELSE Proceed(Raising(how, lg))
    /\ UNCHANGED job
    /\ UNCHANGED << managerVars, classifyVars >>

\* client.ensureDir(remoteBasePath) settles; then uploadDirectory starts on
\* the root and awaits fs.readdir.
UploadRootEnsureDir(how) ==
    /\ job.kind = "uploadAll"
    /\ wpc = "rootEnsure"
    /\ Settle("ensureDir", << >>, how)
    /\ LET lg == Append(log, Event("ensureDir", << >>, how))
       IN  IF how = Fine
           THEN Proceed(Going(<< [path |-> << >>, i |-> 0] >>, "readdir",
                              NoOp, lg))
           ELSE Proceed(Raising(how, lg))
    /\ UNCHANGED job
    /\ UNCHANGED << managerVars, classifyVars >>

\* fs.readdir(localPath) of uploadDirectory settles; the loop over the
\* entries starts.
Readdir(how) ==
    /\ job.kind = "uploadAll"
    /\ wpc = "readdir"
    /\ Settle("readdir", stack[Len(stack)].path, how)
    /\ LET lg == Append(log, Event("readdir", stack[Len(stack)].path, how))
       IN  IF how = Fine
           THEN Proceed(WalkUp([stack EXCEPT ![Len(stack)].i = 1], lg))
           ELSE Proceed(Raising(Unwind(how, stack), lg))
    /\ UNCHANGED job
    /\ UNCHANGED << managerVars, classifyVars >>

\* getConnection() of an attempt of executeOperation settles.
OperationConnection(how) ==
    /\ job.kind \in {"uploadAll", "uploadFile"}
    /\ wpc = "opConn"
    /\ Settle("getConnection", op.path, how)
    /\ LET lg == Append(log, Event("getConnection", op.path, how))
       IN  IF how = Fine
           THEN Proceed(Going(stack, "opEnsure", op, lg))
           ELSE OpCatch(how, lg)
    /\ UNCHANGED job
    /\ UNCHANGED << managerVars, classifyVars >>

\* client.ensureDir of the operation settles: createDirectory is done,
\* uploadFile goes on to client.uploadFrom.
OperationEnsureDir(how) ==
    /\ job.kind \in {"uploadAll", "uploadFile"}
    /\ wpc = "opEnsure"
    /\ Settle("ensureDir", ensureDirTarget(op), how)
    /\ LET lg == Append(log, Event("ensureDir", ensureDirTarget(op), how))
       IN  IF how = Fine
           THEN IF op.kind = "mkd"
                THEN Proceed(Returned(lg))
                ELSE Proceed(Going(stack, "opUpload", op, lg))
           ELSE OpCatch(how, lg)
    /\ UNCHANGED job
    /\ UNCHANGED << managerVars, classifyVars >>

\* client.uploadFrom(localPath, remotePath) settles.
OperationUploadFrom(how) ==
    /\ job.kind \in {"uploadAll", "uploadFile"}
    /\ wpc = "opUpload"
    /\ Settle("uploadFrom", op.path, how)
    /\ LET lg == Append(log, Event("uploadFrom", op.path, how))
       IN  IF how = Fine
           THEN Proceed(Returned(lg))
           ELSE OpCatch(how, lg)
    /\ UNCHANGED job
    /\ UNCHANGED << managerVars, classifyVars >>

\* The backoff sleep of executeOperation is over: the next attempt calls
\* getConnection().
OperationBackoff ==
    /\ job.kind \in {"uploadAll", "uploadFile"}
    /\ wpc = "opBackoff"
    /\ Proceed(Going(stack, "opConn", [op EXCEPT !.attempt = @ + 1], log))
    /\ UNCHANGED << job, faults >>
    /\ UNCHANGED << managerVars, classifyVars >>

\* An upload of one of the local trees, whose root exists or not and whose
\* path text may hold a marker, or of a single file, existing or not.
InitUpload ==
    /\ InitManager
    /\ wrapped = {}
    /\ InitClassifyIdle
    /\ job \in [kind : {"uploadAll"},
                tree : {"nested", "flat", "mixed", "deep"},
                exists : BOOLEAN,
                text : PathTexts,
                gone : {"", "f2"}]
            \cup [kind : {"uploadFile"},
                  tree : {"none"},
                  exists : BOOLEAN,
                  text : PathTexts,
                  gone : {""}]
    /\ stack = << >>
    /\ wpc = "idle"
    /\ op = NoOp
    /\ log = << >>
    /\ result = NoResult
    /\ faults = 0

NextUpload ==
    \/ UploadAll
    \/ UploadFile
    \/ \E how \in Outcomes : UploadRootReaddir(how)
    \/ \E how \in Connections : UploadRootConnection(how)
    \/ \E how \in Outcomes : UploadRootEnsureDir(how)
    \/ \E how \in Outcomes : Readdir(how)
    \/ \E how \in Connections : OperationConnection(how)
    \/ \E how \in Outcomes : OperationEnsureDir(how)
    \/ \E how \in Outcomes : OperationUploadFrom(how)
    \/ OperationBackoff

SpecUpload == InitUpload /\ [][NextUpload]_vars

\* -------------------------------------------------------------- backoff
\* config.connection.retryDelay: the default and other settings
DefaultRetryDelay == 1000

RetryDelays == {250, DefaultRetryDelay, 3000, 6000}

\* the cap in Math.min(..., 5000)
MaxDelay == 5000

\* a delay that doubles without a cap
BackoffDelayUncapped(retryDelay, k) == retryDelay * 2 ^ (k - 1)

\* Math.min(config.connection.retryDelay * Math.pow(2, attempt - 1), 5000)
BackoffDelay(retryDelay, k) ==
    IF retryDelay * 2 ^ (k - 1) < MaxDelay
    THEN retryDelay * 2 ^ (k - 1)
    ELSE MaxDelay

\* One executeOperation call followed through its attempts; the log holds
\* one entry per failed attempt: its number, the code of the classified
\* error and the sleep taken after it (no sleep: "none", 0).
ExecuteOperation ==
    /\ job.kind = "operation"
    /\ wpc = "idle"
    /\ wpc' = "attempt"
    /\ op' = Start("operation", << >>)
    /\ UNCHANGED << job, stack, log, result, faults >>
    /\ UNCHANGED << managerVars, classifyVars >>

\* getConnection() and operation(client) resolve: the result is returned.
AttemptOk ==
    /\ job.kind = "operation"
    /\ wpc = "attempt"
    /\ wpc' = "done"
    /\ result' = [done |-> TRUE, ok |-> TRUE, error |-> Fine]
    /\ UNCHANGED << job, stack, op, log, faults >>
    /\ UNCHANGED << managerVars, classifyVars >>

\* getConnection() or operation(client) rejects with how: the catch block
\* classifies it, then either leaves the loop (lastError is thrown) or
\* invalidates the connection and starts the backoff sleep.
AttemptFail(how) ==
    /\ job.kind = "operation"
    /\ wpc = "attempt"
    /\ how # Fine
    /\ LET ftpError == classifyFtpError(how, ContextPath)
       IN  IF ShouldStop(ftpError, op.attempt)
           THEN /\ wpc' = "done"
                /\ result' = [done |-> TRUE, ok |-> FALSE, error |-> ftpError]
                /\ log' = Append(log, [attempt |-> op.attempt,
                                       code |-> ftpError.code,
                                       sleep |-> "none", ms |-> 0])
           ELSE /\ wpc' = "sleep"
                /\ log' = Append(log, [attempt |-> op.attempt,
                                       code |-> ftpError.code,
                                       sleep |-> "taken",
                                       ms |-> BackoffDelay(job.retryDelay,
                                                           op.attempt)])
                /\ UNCHANGED result
    /\ UNCHANGED << job, stack, op, faults >>
    /\ UNCHANGED << managerVars, classifyVars >>

\* The timer of the sleep fires: the loop goes to its next attempt.
SleepOver ==
    /\ job.kind = "operation"
    /\ wpc = "sleep"
    /\ wpc' = "attempt"
    /\ op' = [op EXCEPT !.attempt = @ + 1]
    /\ UNCHANGED << job, stack, log, result, faults >>
    /\ UNCHANGED << managerVars, classifyVars >>

\* One operation, under any maxRetries up to the bound and any base delay.
InitBackoff ==
    /\ InitPool
    /\ maxRetries \in 1 .. MaxBackoffRetries
    /\ wrapped = {}
    /\ InitClassifyIdle
    /\ job \in [kind : {"operation"}, retryDelay : RetryDelays]
    /\ stack = << >>
    /\ wpc = "idle"
    /\ op = NoOp
    /\ log = << >>
    /\ result = NoResult
    /\ faults = 0

NextBackoff ==
    \/ ExecuteOperation
    \/ AttemptOk
    \/ \E how \in Outcomes : AttemptFail(how)
    \/ SleepOver

SpecBackoff == InitBackoff /\ [][NextBackoff]_vars

\* ---------------------------------------------- two wrapped call paths
\* The code that obtained a handle from getConnection() issues a further
\* remote command on it after its previous one resolved: uploadFile calls
\* client.uploadFrom after client.ensureDir, downloadDirectory calls
\* client.downloadTo for every file after client.list, all on the same
\* local variable.
NextCommand(p) ==
    /\ pc[p] = "running"
    /\ cur[p] # Null
    /\ Len(log) < MaxCommands
    /\ log' = Append(log, Event("command", << >>, Fine))
    /\ UNCHANGED << job, stack, wpc, op, result, faults >>
    /\ UNCHANGED << managerVars, classifyVars >>

\* Both call paths run their operations through executeOperation.
InitPaths ==
    /\ InitManager
    /\ wrapped = Callers
    /\ InitClassifyIdle
    /\ InitWalkIdle

NextPaths ==
    \/ \E p \in Callers : GetConnection(p)
    \/ \E p \in Callers : Connected(p)
    \/ \E p \in Callers : ConnectOk(p)
    \/ \E p \in Callers, raw \in RawErrors : ConnectFail(p, raw)
    \/ \E p \in Callers : WaitDone(p)
    \/ \E p \in Callers : WaitTimeout(p)
    \/ \E p \in Callers : OpOk(p)
    \/ \E p \in Callers, raw \in RawErrors : OpFail(p, raw)
    \/ \E p \in Callers : NextCommand(p)
    \/ \E p \in Callers : Finish(p)
    \/ Close
    \/ Shutdown
    \/ Invalidate
    \/ IdleTimerExpired
    \/ \E h \in Handles : SocketError(h)
    \/ \E h \in Handles : SocketClose(h)

SpecPaths == InitPaths /\ [][NextPaths]_vars

\* ------------------------------------------------------------------ claims
\* C1: every handle that getConnection() returns to a caller is a non-null
\* handle of a session that is open at the moment of the return.
ReturnedHandleIsOpen ==
    \A p \in Callers : got[p].kind \in {"none", "open", "threw"}

\* C2: at most one session is open at any moment, and no open session is
\* outside the slot while another one is pooled or being established.
AtMostOneLiveSession ==
    /\ Cardinality({h \in Handles : hstate[h] = "open"}) <= 1
    /\ \A h \in Handles :
          (hstate[h] = "open" /\ client # h) =>
             (client = Null /\ ~isConnecting)

\* C3: at most one handshake is in flight, the connecting flag is set exactly
\* while one is, and once the attempt a caller waited on has succeeded that
\* caller receives the handle this attempt produced.
SingleHandshakeSharedByWaiters ==
    /\ Cardinality({p \in Callers : pc[p] = "connecting"}) <= 1
    /\ isConnecting <=> \E p \in Callers : pc[p] = "connecting"
    /\ \A p \in Callers : got[p].waitOk

\* C4: an executeOperation whose every attempt invoked the operation and
\* failed with a CONNECTION error has invoked it exactly maxRetries times
\* when it raises, and raises a CONNECTION error; one that fails with a
\* retryable error on attempt 1 and succeeds on attempt 2 has made exactly
\* two invocations.
ConnectionFailuresUseAllAttempts ==
    \A p \in Callers :
       /\ (pc[p] = "done" /\ outcome[p] \notin {"none", "ok"}
             /\ run[p].allConnection) =>
             (run[p].calls = maxRetries /\ outcome[p] = "CONNECTION_ERROR")
       /\ (pc[p] = "done" /\ outcome[p] = "ok" /\ attempt[p] = 2
             /\ run[p].opRetryable) =>
             run[p].calls = 2

ConnectionFailuresExhausted ==
    \E p \in Callers :
       /\ pc[p] = "done"
       /\ outcome[p] = "CONNECTION_ERROR"
       /\ run[p].allConnection
       /\ maxRetries = 2
       /\ run[p].calls = 2

\* C5: an executeOperation that raises an AUTH, FILE_NOT_FOUND, PERMISSION or
\* UNKNOWN error from the operation, no invocation before it having failed
\* with a retryable error, has invoked the operation exactly once, whatever
\* maxRetries is.
NonRetryableStopsAtOnce ==
    \A p \in Callers :
       (pc[p] = "done" /\ run[p].lastInOp /\ ~run[p].opRetryable
          /\ outcome[p] \in {"AUTH_ERROR", "FILE_NOT_FOUND",
                             "PERMISSION_ERROR", "UNKNOWN_ERROR"}) =>
          (run[p].calls = 1 /\ ~failed[p].retry)

AuthStoppedAfterOneCall ==
    \E p \in Callers :
       /\ pc[p] = "done"
       /\ outcome[p] = "AUTH_ERROR"
       /\ run[p].lastInOp
       /\ attempt[p] = 1
       /\ maxRetries = 2
       /\ run[p].calls = 1

\* C6: after a retryable failure that is retried, the slot is cleared before
\* the backoff sleep, and the next attempt never runs on the handle that
\* failed: any handle it runs on was created after the failure.
RetryAfterInvalidation ==
    \A p \in Callers :
       /\ pc[p] = "backoff" => (failed[p].retry /\ failed[p].slot = Null)
       /\ (pc[p] = "running" /\ attempt[p] > 1) =>
             /\ failed[p].h # Null => cur[p] # failed[p].h
             /\ cur[p] # Null => cur[p] > failed[p].mark

RetryOnNewHandle ==
    \E p \in Callers :
       /\ pc[p] = "running"
       /\ attempt[p] = 2
       /\ failed[p].h # Null
       /\ hstate[failed[p].h] = "closed"
       /\ cur[p] # Null
       /\ hstate[cur[p]] = "open"

\* C7: a waiter whose wait reaches the maximum while the attempt is still
\* unresolved fails; it is not handed a handle.
TimedOutWaiterFails ==
    \A p \in Callers : got[p].timedOut => got[p].kind = "threw"

\* C8: every handle in the slot has an armed idle timer, and when that timer
\* fires over a handle in the slot the handle is closed and the slot cleared.
IdleTimerClosesPooledHandle ==
    /\ [](client # Null => idleTimer = "armed")
    /\ [][(IdleTimerExpired /\ client # Null) =>
             (client' = Null /\ hstate'[client] = "closed"
                /\ idleTimer' = "null")]_vars

IdleClosedPooledHandle ==
    /\ since = "idle"
    /\ created = 1
    /\ authed = {1}
    /\ hstate[1] = "closed"
    /\ client = Null
    /\ idleTimer = "null"

\* C9: from invalidateConnection() until the next getConnection() the manager
\* is in the state from which getConnection() starts a handshake of its own:
\* nothing to reuse and no attempt to wait for.
InvalidationForcesHandshake ==
    since = "invalidate" => (~CanReuse /\ ~isConnecting)

\* C10: a getConnection() call made after the caller's previous call returned
\* an open handle, with no close, invalidation, idle expiry, socket event or
\* failure in between, returns that same handle, still open, without a
\* handshake and without waiting.
BackToBackCallsShareSession ==
    \A p \in Callers :
       got[p].prev # Null =>
          /\ got[p].kind = "open"
          /\ got[p].h = got[p].prev
          /\ ~got[p].fresh
          /\ ~got[p].waited

BackToBackReuse ==
    \E p \in Callers :
       /\ got[p].prev # Null
       /\ got[p].kind = "open"
       /\ got[p].h = got[p].prev
       /\ created = 1

\* C18: classifyFtpError returns, for every input, one classified error whose
\* code is the first match over the lower-cased message in the order
\* CONNECTION, AUTH, FILE_NOT_FOUND, PERMISSION, TIMEOUT, else UNKNOWN; it is
\* retryable exactly for CONNECTION and TIMEOUT; an input that is no failure
\* object gives UNKNOWN.
ClassifierFollowsTable ==
    output # NoOutput =>
       LET msg == {LowerCase(t) : t \in input.error.marks}
           has(ms) == input.error.isError /\ msg \cap ms # {}
           conn == has({"econnrefused", "enotfound", "etimedout",
                        "econnreset"})
           auth == has({"login", "authentication", "530"})
           gone == has({"no such file", "550", "not found"})
           perm == has({"permission", "553", "access denied"})
           late == has({"timeout", "timed out"})
       IN  /\ output.isError
           /\ output.code # "CONNECTION_ERROR" \/ conn
           /\ conn => output.code = "CONNECTION_ERROR"
           /\ (~conn /\ auth) <=> output.code = "AUTH_ERROR"
           /\ (~conn /\ ~auth /\ gone) <=> output.code = "FILE_NOT_FOUND"
           /\ (~conn /\ ~auth /\ ~gone /\ perm) <=>
                 output.code = "PERMISSION_ERROR"
           /\ (~conn /\ ~auth /\ ~gone /\ ~perm /\ late) <=>
                 output.code = "TIMEOUT_ERROR"
           /\ (~conn /\ ~auth /\ ~gone /\ ~perm /\ ~late) <=>
                 output.code = "UNKNOWN_ERROR"
           /\ output.isRetryable <=>
                 output.code \in {"CONNECTION_ERROR", "TIMEOUT_ERROR"}
           /\ ~input.error.isError => output.code = "UNKNOWN_ERROR"

ClassifiedByPrecedence ==
    /\ output.code = "FILE_NOT_FOUND"
    /\ input.error.isError
    /\ {"550", "553", "Timeout"} \subseteq input.error.marks

\* C19: a raw failure whose lower-cased message contains econnrefused,
\* enotfound, etimedout or econnreset is classified CONNECTION and retryable,
\* whatever else the message contains.
ConnectionMarkersWin ==
    (/\ output # NoOutput
     /\ input.error.isError
     /\ {LowerCase(t) : t \in input.error.marks}
           \cap {"econnrefused", "enotfound", "etimedout", "econnreset"} # {})
    => (output.code = "CONNECTION_ERROR" /\ output.isRetryable)

ConnectionAmongOtherMarkers ==
    /\ output.code = "CONNECTION_ERROR"
    /\ output.isRetryable
    /\ {"ECONNRESET", "530", "permission"} \subseteq input.error.marks

\* C20: a raw failure whose message contains 530, login or authentication is
\* classified AUTH and not retryable.
AuthMarkersGiveAuth ==
    (/\ output # NoOutput
     /\ input.error.isError
     /\ input.error.marks \cap {"530", "login", "authentication"} # {})
    => (output.code = "AUTH_ERROR" /\ ~output.isRetryable)

\* C20, amended: a raw failure whose lower-cased message contains 530, login
\* or authentication and none of econnrefused, enotfound, etimedout,
\* econnreset is classified AUTH and not retryable.
AuthMarkersGiveAuthUnlessConnection ==
    (/\ output # NoOutput
     /\ input.error.isError
     /\ {LowerCase(t) : t \in input.error.marks}
           \cap {"530", "login", "authentication"} # {}
     /\ {LowerCase(t) : t \in input.error.marks}
           \cap {"econnrefused", "enotfound", "etimedout", "econnreset"} = {})
    => (output.code = "AUTH_ERROR" /\ ~output.isRetryable)

AuthBeforeLaterMarkers ==
    /\ output.code = "AUTH_ERROR"
    /\ ~output.isRetryable
    /\ {"530", "550", "timed out"} \subseteq input.error.marks

\* C12: during downloadAll a listing or a file transfer that fails with a
\* retryable error is attempted again (when maxRetries allows another
\* attempt) before the walker gives the call up.
BulkDownloadRetries ==
    (result.done /\ maxRetries > 1) =>
       \A i \in DOMAIN log :
          (/\ log[i].cmd \in {"list", "downloadTo"}
           /\ log[i].code \in {"CONNECTION_ERROR", "TIMEOUT_ERROR"}
           /\ \A h \in 1 .. i - 1 :
                 ~(log[h].cmd = log[i].cmd /\ log[h].path = log[i].path))
          => \E j \in DOMAIN log :
                /\ j > i
                /\ log[j].cmd = log[i].cmd
                /\ log[j].path = log[i].path

\* C16: downloadAll lists the remote root before it creates the local root,
\* and when the remote root cannot be listed no directory is explored.
DownloadChecksRemoteRootFirst ==
    LET listed(n) == \E j \in 1 .. n :
                        /\ log[j].cmd = "list"
                        /\ log[j].path = << >>
                        /\ log[j].code = "OK"
    IN  /\ wpc = "rootMkdir" => listed(Len(log))
        /\ \A i \in DOMAIN log :
              (log[i].cmd = "mkdir" /\ log[i].path = << >>) => listed(i - 1)
        /\ \A i \in DOMAIN log : log[i].cmd = "explore" => listed(i - 1)

\* C17: in a download without failures an entry of type 2, "2" or "d" is
\* listed as a directory, an entry of type 1, "1" or "-" is transferred as a
\* file, and an entry of any other type is skipped with a warning; none of
\* them gets any of the other two treatments and downloadAll returns true.
TypesDiscriminatedAlike ==
    (result.done /\ faults = 0) =>
       /\ result.ok
       /\ \A k \in 1 .. 2 :
             LET t == job.types[k]
                 path == << RemoteListing(<< >>)[k].name >>
                 did(cmd) == \E i \in DOMAIN log :
                                log[i].cmd = cmd /\ log[i].path = path
                 asDir == t \in {NumberType(2), StringType("2"),
                                 StringType("d")}
                 asFile == t \in {NumberType(1), StringType("1"),
                                  StringType("-")}
             IN  /\ did("list") <=> asDir
                 /\ did("downloadTo") <=> asFile
                 /\ did("skip") <=> (~asDir /\ ~asFile)

NumericDirectoryAndCharacterFile ==
    /\ result.done
    /\ result.ok
    /\ faults = 0
    /\ job.types[1] = NumberType(2)
    /\ job.types[2] = StringType("-")
    /\ \E i \in DOMAIN log : log[i].cmd = "list" /\ log[i].path = << "e1" >>
    /\ \E i \in DOMAIN log :
          log[i].cmd = "downloadTo" /\ log[i].path = << "e2" >>

\* C14: uploadFile on a local path that does not exist raises an error coded
\* FILE_NOT_FOUND and not retryable, whatever the path reads, and does so
\* before executeOperation: no getConnection(), no remote command, no
\* invalidation and no backoff ever happen in that call.
MissingLocalFileNeverConnects ==
    (job.kind = "uploadFile" /\ ~job.exists) =>
        /\ log = << >>
        /\ op = NoOp
        /\ wpc \in {"idle", "done"}
        /\ result.done =>
             /\ ~result.ok
             /\ result.error.code = "FILE_NOT_FOUND"
             /\ ~result.error.isRetryable

\* C14 witness: the call on a missing file whose path reads "timeout" has
\* raised.
MissingLocalFileRaised ==
    /\ job.kind = "uploadFile"
    /\ ~job.exists
    /\ job.text = {"timeout"}
    /\ result.done
    /\ ~result.ok

\* C13: uploadAll on a missing local root raises an error that is not
\* retryable, before any getConnection(), remote command or traversal step.
MissingLocalRootNotRetryable ==
    (job.kind = "uploadAll" /\ ~job.exists) =>
        /\ log = << >>
        /\ stack = << >>
        /\ wpc \in {"idle", "done"}
        /\ result.done => (~result.ok /\ ~result.error.isRetryable)

\* C11: a regular file whose upload has failed inside uploadAll never ends
\* the bulk upload. In the tree of three files, every file listed after the
\* failed one gets its uploadFile call and uploadAll returns true; in any
\* tree, an uploadAll that raised after a failed file raised for a later
\* failure of something that is no file upload.
FailedFileDoesNotStopUpload ==
    \A i \in 1 .. Len(log) :
        (/\ job.kind = "uploadAll"
         /\ result.done
         /\ log[i].cmd = "uploadFile"
         /\ log[i].code # "OK") =>
            /\ job.tree = "flat" =>
                 /\ result.ok
                 /\ \A name \in {"f1", "f2", "f3"} :
                        \E j \in 1 .. Len(log) :
                            /\ log[j].cmd = "uploadFile"
                            /\ log[j].path = << name >>
            /\ ~result.ok =>
                 \E j \in (i + 1) .. Len(log) :
                     /\ log[j].code # "OK"
                     /\ log[j].cmd # "uploadFile"

\* C11 witness: with maxRetries = 2 the transfer of the second of three files
\* failed twice with a connection error (one invalidation in between), the
\* third file was transferred after it, and uploadAll returned true.
SecondFileExhaustedThirdUploaded ==
    /\ job.kind = "uploadAll"
    /\ job.tree = "flat"
    /\ maxRetries = 2
    /\ result.done
    /\ result.ok
    /\ \E i, j, k, l \in 1 .. Len(log) :
          /\ i < j /\ j < k /\ k < l
          /\ log[i] = [cmd |-> "uploadFrom", path |-> << "f2" >>,
                       code |-> "CONNECTION_ERROR"]
          /\ log[j] = [cmd |-> "uploadFrom", path |-> << "f2" >>,
                       code |-> "CONNECTION_ERROR"]
          /\ log[k] = [cmd |-> "uploadFile", path |-> << "f2" >>,
                       code |-> "CONNECTION_ERROR"]
          /\ log[l] = [cmd |-> "uploadFrom", path |-> << "f3" >>,
                       code |-> "OK"]

\* C15 as stated: the upload of {a.txt, sub/b.txt} without failures issues
\* exactly two transfers, to a.txt and to sub/b.txt, and exactly one
\* directory-creating command for sub on the session.
OneDirectoryCommandForSub ==
    (/\ job.kind = "uploadAll"
     /\ job.tree = "nested"
     /\ job.exists
     /\ result.done
     /\ faults = 0) =>
        /\ result.ok
        /\ Cardinality({i \in 1 .. Len(log) : log[i].cmd = "uploadFrom"}) = 2
        /\ \A path \in {<< "a.txt" >>, << "sub", "b.txt" >>} :
               \E i \in 1 .. Len(log) :
                   log[i] = [cmd |-> "uploadFrom", path |-> path,
                             code |-> "OK"]
        /\ Cardinality({i \in 1 .. Len(log) :
                          /\ log[i].cmd = "ensureDir"
                          /\ log[i].path = << "sub" >>}) = 1

\* C15: the upload of {a.txt, sub/b.txt} without failures issues exactly two
\* transfers, to a.txt and to sub/b.txt, and exactly one createDirectory
\* operation, for sub; on the session ensureDir runs twice for sub (once in
\* createDirectory, once in the upload of sub/b.txt) and twice for the root
\* (once in uploadAll, once in the upload of a.txt).
OneCreateDirectoryTwoEnsureDirs ==
    (/\ job.kind = "uploadAll"
     /\ job.tree = "nested"
     /\ job.exists
     /\ result.done
     /\ faults = 0) =>
        /\ result.ok
        /\ Cardinality({i \in 1 .. Len(log) : log[i].cmd = "uploadFrom"}) = 2
        /\ \A path \in {<< "a.txt" >>, << "sub", "b.txt" >>} :
               \E i \in 1 .. Len(log) :
                   log[i] = [cmd |-> "uploadFrom", path |-> path,
                             code |-> "OK"]
        /\ {i \in 1 .. Len(log) : log[i].cmd = "createDirectory"}
             = {i \in 1 .. Len(log) :
                  log[i] = [cmd |-> "createDirectory", path |-> << "sub" >>,
                            code |-> "OK"]}
        /\ Cardinality({i \in 1 .. Len(log) :
                          log[i].cmd = "createDirectory"}) = 1
        /\ \A path \in {<< >>, << "sub" >>} :
               Cardinality({i \in 1 .. Len(log) :
                              /\ log[i].cmd = "ensureDir"
                              /\ log[i].path = path}) = 2

\* C15 witness: the tree {a.txt, sub/b.txt} has been uploaded without a
\* failure.
NestedTreeUploaded ==
    /\ job.kind = "uploadAll"
    /\ job.tree = "nested"
    /\ result.done
    /\ result.ok
    /\ faults = 0
    /\ \E i \in 1 .. Len(log) :
           log[i] = [cmd |-> "uploadFile", path |-> << "sub", "b.txt" >>,
                     code |-> "OK"]

\* C21: the sleep after failed retryable attempt k < maxRetries lasts
\* min(retryDelay * 2^(k-1), 5000) ms, which for the default base 1000 is
\* 1000, 2000, 4000, 5000, 5000, ...; the sleeps never decrease and never
\* exceed 5000; no sleep follows the last allowed attempt or a failure that
\* is not retryable, and such a failure ends the call.
BackoffSleepsFollowTable ==
    \A i \in 1 .. Len(log) :
        job.kind = "operation" =>
            /\ log[i].attempt = i
            /\ IF /\ i < maxRetries
                  /\ log[i].code \in {"CONNECTION_ERROR", "TIMEOUT_ERROR"}
               THEN /\ log[i].sleep = "taken"
                    /\ log[i].ms <= 5000
                    /\ \/ log[i].ms = job.retryDelay * 2 ^ (i - 1)
                       \/ /\ log[i].ms = 5000
                          /\ job.retryDelay * 2 ^ (i - 1) >= 5000
                    /\ job.retryDelay = 1000 =>
                         log[i].ms = << 1000, 2000, 4000, 5000, 5000, 5000,
                                        5000 >>[i]
                    /\ i > 1 => log[i - 1].ms <= log[i].ms
               ELSE /\ log[i].sleep = "none"
                    /\ i = Len(log)
                    /\ wpc = "done"
                    /\ result.done /\ ~result.ok

\* C21 witness: with the default base and maxRetries = 6, five retryable
\* failures were followed by sleeps and the sixth ended the call without one.
FiveSleepsThenGiveUp ==
    /\ job.kind = "operation"
    /\ job.retryDelay = 1000
    /\ maxRetries = 6
    /\ Len(log) = 6
    /\ log[4].ms = 5000
    /\ log[5].ms = 5000
    /\ log[6].sleep = "none"
    /\ result.done

StaleNotificationKeepsSlot ==
    [][\A h \in Handles :
          (/\ SocketError(h) \/ SocketClose(h)
           /\ client # Null
           /\ client # h) =>
              /\ client' = client
              /\ idleTimer' = idleTimer]_vars

\* C23: every remote command the transfer service issues goes to the handle
\* that is in the manager's slot at that moment.
CommandsGoToPooledHandle ==
    [][\A p \in Callers : NextCommand(p) => cur[p] = client]_vars

\* C25: the idle callback never closes a handle on which an operation that
\* got it from getConnection() is still running.
IdleExpirySparesRunningOperation ==
    [][IdleTimerExpired =>
          \A p \in Callers :
              (/\ pc[p] = "running"
               /\ cur[p] # Null
               /\ hstate[cur[p]] = "open") => hstate'[cur[p]] = "open"]_vars

\* C26: the invalidation after a retryable failure of an operation closes no
\* handle other than the one the operation ran on, and no handle on which the
\* other call path has an operation running.
InvalidationClosesOnlyFailedHandle ==
    [][\A p \in Callers :
          ((\E raw \in RawErrors : OpFail(p, raw)) /\ pc'[p] = "backoff") =>
              /\ \A h \in Handles \ {cur[p]} : hstate'[h] = hstate[h]
              /\ \A q \in Callers \ {p} :
                    (/\ pc[q] = "running"
                     /\ cur[q] # Null
                     /\ hstate[cur[q]] = "open") =>
                         hstate'[cur[q]] = "open"]_vars

\* C27: when a connection attempt has failed with an authentication error
\* and ended the connecting caller's executeOperation, the executeOperation
\* of the caller that was waiting on that attempt ends at once as well, with
\* an error that is not retryable, without invalidating anything.
WaiterSeesSameClassification ==
    [][\A p, q \in Callers :
          (/\ p # q
           /\ pc[p] = "waiting"
           /\ pc[q] = "done"
           /\ outcome[q] = "AUTH_ERROR"
           /\ ~run[q].lastInOp
           /\ WaitDone(p)) =>
              /\ pc'[p] = "done"
              /\ outcome'[p] \in {"AUTH_ERROR", "FILE_NOT_FOUND",
                                  "PERMISSION_ERROR", "UNKNOWN_ERROR"}
              /\ hstate' = hstate]_vars

\* C28: when executeOperation raises a retryable error after its last
\* allowed attempt, the handle that attempt ran on is not in the slot.
ExhaustedHandleLeavesPool ==
    \A p \in wrapped :
        (/\ pc[p] = "done"
         /\ outcome[p] \in {"CONNECTION_ERROR", "TIMEOUT_ERROR"}
         /\ attempt[p] = maxRetries
         /\ run[p].lastInOp
         /\ failed[p].h # Null) => failed[p].slot # failed[p].h

\* C29: when uploadAll could not create a remote subdirectory (the
\* createDirectory call gave up) or could not list a local subdirectory, it
\* raises a classified error, and the failed call is the last thing it did:
\* no sibling at any level is attempted afterwards.
DirectoryFailureAbortsUpload ==
    \A dir \in {<< "sub" >>, << "d" >>, << "d1" >>, << "d1", "d2" >>} :
        (/\ job.kind = "uploadAll"
         /\ result.done
         /\ \E i \in 1 .. Len(log) :
               /\ log[i].path = dir
               /\ \/ log[i].cmd = "readdir" /\ log[i].code # "OK"
                  \/ /\ log[i].cmd = "createDirectory"
                     /\ \A j \in 1 .. Len(log) :
                           ~(log[j].cmd = "readdir" /\ log[j].path = dir)) =>
            /\ ~result.ok
            /\ result.error.isError
            /\ result.error.code \in
                 {"CONNECTION_ERROR", "AUTH_ERROR", "FILE_NOT_FOUND",
                  "PERMISSION_ERROR", "TIMEOUT_ERROR", "UNKNOWN_ERROR"}
            /\ log[Len(log)].path = dir
            /\ log[Len(log)].code # "OK"
            /\ log[Len(log)].cmd \in {"readdir", "getConnection", "ensureDir"}

\* C29 witness: in the tree {d1/d2/x, d1/y, z} with maxRetries = 2, creating
\* d1/d2 failed twice with a connection error; uploadAll raised and neither
\* d1/y nor z was touched.
InnerDirectoryFailureRaised ==
    /\ job.kind = "uploadAll"
    /\ job.tree = "deep"
    /\ maxRetries = 2
    /\ result.done
    /\ ~result.ok
    /\ Len(log) > 3
    /\ log[Len(log)] = [cmd |-> "ensureDir", path |-> << "d1", "d2" >>,
                        code |-> "CONNECTION_ERROR"]
    /\ log[Len(log) - 3] = [cmd |-> "ensureDir", path |-> << "d1", "d2" >>,
                            code |-> "CONNECTION_ERROR"]
    /\ \A i \in 1 .. Len(log) :
           log[i].path \notin {<< "d1", "y" >>, << "z" >>}

\* C30: an error that classifyFtpError returned, passed through
\* classifyFtpError again with or without a path, comes back with the same
\* code and the same isRetryable flag.
ReclassificationKeepsCode ==
    output.code # "NOT_RUN" =>
        \A path \in PathTexts :
            /\ classifyFtpError(output, path).code = output.code
            /\ classifyFtpError(output, path).isRetryable = output.isRetryable

====
